---- MODULE Spec2Model ----
(***************************************************************************)
(* numpy-flight: a codec between mappings of named n-dimensional arrays    *)
(* and Arrow tables (flight/utils/alter.py), a Flight server that stores   *)
(* uploaded tables by command and applies a computation on retrieval       *)
(* (flight/numpy_server.py), and a client that writes, gets and computes   *)
(* (flight/numpy_client.py).                                               *)
(***************************************************************************)
EXTENDS Integers, Sequences, FiniteSets, TLC

(***************************************************************************)
(* Bounds of the model.                                                    *)
(***************************************************************************)
\* largest number of axes of an enumerated array
MaxRank == 2
\* largest size of one axis of an enumerated array
MaxExtent == 2
\* largest offset added to the element values of an enumerated array
MaxBase == 1

(***************************************************************************)
(* Data: n-dimensional arrays.  An array is its element type class, its    *)
(* shape and its elements, a function from the multi-indices of the shape  *)
(* (0-based, as in NumPy) to values.  A 0-dimensional array has shape <<>>  *)
(* and the single index <<>>.  Text elements are represented by integer    *)
(* codes; the type class says how to read them.                            *)
(***************************************************************************)
DTypes == {"int", "float", "text"}

RECURSIVE Prod(_)
Prod(shape) == IF shape = <<>> THEN 1 ELSE Head(shape) * Prod(Tail(shape))

RECURSIVE Indices(_)
Indices(shape) ==
    IF shape = <<>> THEN {<<>>}
    ELSE {<<i>> \o rest : i \in 0..(Head(shape) - 1), rest \in Indices(Tail(shape))}

\* the value None of a mapping entry
None == [dtype |-> "none", shape |-> <<>>, val |-> [idx \in {<<>>} |-> 0]]

\* row-major (C order) offset of a multi-index: the first axis varies slowest
RECURSIVE RavelIndex(_, _)
RavelIndex(idx, shape) ==
    IF idx = <<>> THEN 0
    ELSE Head(idx) * Prod(Tail(shape)) + RavelIndex(Tail(idx), Tail(shape))

\* the multi-index at a row-major offset
RECURSIVE UnravelIndex(_, _)
UnravelIndex(k, shape) ==
    IF shape = <<>> THEN <<>>
    ELSE <<k \div Prod(Tail(shape))>>
             \o UnravelIndex(k % Prod(Tail(shape)), Tail(shape))

\* the multi-index at a column-major (Fortran order) offset
RECURSIVE UnravelIndexF(_, _)
UnravelIndexF(k, shape) ==
    IF shape = <<>> THEN <<>>
    ELSE <<k % Head(shape)>> \o UnravelIndexF(k \div Head(shape), Tail(shape))

\* flatten as it would be in column-major order, flatten("F")
flatten_F(arr) ==
    [k \in 1..Prod(arr.shape) |-> arr.val[UnravelIndexF(k - 1, arr.shape)]]

\* ndarray.flatten(): a copy of the elements as one sequence, in row-major order
flatten(arr) ==
    [k \in 1..Prod(arr.shape) |-> arr.val[UnravelIndex(k - 1, arr.shape)]]

\* ndarray.reshape(shape) of a one-dimensional array: the elements laid out
\* by shape in row-major order (defined when Prod(shape) = Len(data))
reshape(data, shape) ==
    [idx \in Indices(shape) |-> data[RavelIndex(idx, shape) + 1]]

(***************************************************************************)
(* Data: Arrow tables.  A table maps each column name to the sequence of   *)
(* the column's rows.  A row written by the codec is a struct of the flat  *)
(* data, the shape and the Arrow item type of the data; any other row is   *)
(* a plain value.                                                          *)
(***************************************************************************)
\* the Arrow item type pyarrow infers for the elements of an array
ArrowType(dtype) ==
    CASE dtype = "int" -> "int64"
      [] dtype = "float" -> "double"
      [] OTHER -> "string"

\* the element type class np.asarray infers for a Python list read from Arrow:
\* an empty list has no element to infer from and becomes float64
asarray_dtype(data, type) ==
    IF data = <<>> THEN "float"
    ELSE CASE type = "int64" -> "int"
           [] type = "double" -> "float"
           [] OTHER -> "text"

Struct(data, shape, type) ==
    [kind |-> "struct", data |-> data, shape |-> shape, type |-> type]

\* a row that is no struct of data and shape
Plain(v) == [kind |-> "plain", data |-> <<v>>, shape |-> <<>>, type |-> "int64"]

\* the table with no column
NoColumns == [n \in {} |-> <<>>]

\* Table.num_rows: the common length of the columns, 0 without columns
num_rows(table) ==
    IF DOMAIN table = {} THEN 0
    ELSE Len(table[CHOOSE n \in DOMAIN table : TRUE])

(***************************************************************************)
(* The codec, flight/utils/alter.py.                                       *)
(***************************************************************************)
\* a Python str given where an array is expected, as 'not_an_array' in
\* test_invalid_data_handling: its text, one code
PyStr(code) == [dtype |-> "str", shape |-> <<>>, val |-> [idx \in {<<>>} |-> code]]

\* np.asarray(value): an array as it is, a str as a 0-dimensional text array
asarray(value) ==
    IF value.dtype = "str" THEN [value EXCEPT !.dtype = "text"] ELSE value

\* _f with np.atleast_1d: a 0-dimensional array recorded with the shape [1]
np_2_pa_f_atleast_1d(value) ==
    LET arr == asarray(value)
    IN  <<Struct(flatten(arr), IF arr.shape = <<>> THEN <<1>> ELSE arr.shape,
                 ArrowType(arr.dtype))>>

\* _f giving a column without a row for an array that has no element
np_2_pa_f_skip_empty(value) ==
    LET arr == asarray(value)
    IN  IF Prod(arr.shape) = 0 THEN <<>>
        ELSE <<Struct(flatten(arr), arr.shape, ArrowType(arr.dtype))>>

\* np_2_pa._f: one array as a one-row column holding the struct
np_2_pa_f(value) ==
    LET arr == asarray(value)
    IN  <<Struct(flatten(arr), arr.shape, ArrowType(arr.dtype))>>

\* np_2_pa without the filter: an entry that is None becomes a column too
np_2_pa_keep_none(data) == [key \in DOMAIN data |-> np_2_pa_f(data[key])]

\* np_2_pa: the entries that are not None, one column each
np_2_pa(data) ==
    [key \in {k \in DOMAIN data : data[k] # None} |-> np_2_pa_f(data[key])]

\* reshape takes every negative extent for the unknown dimension: the
\* product of the extents that are given
RECURSIVE Known(_)
Known(shape) ==
    IF shape = <<>> THEN 1
    ELSE (IF Head(shape) < 0 THEN 1 ELSE Head(shape)) * Known(Tail(shape))

Unknowns(shape) == {i \in 1..Len(shape) : shape[i] < 0}

\* ndarray.reshape raises ValueError: more than one unknown dimension, an
\* unknown dimension that no extent fits, or a size other than the data's
reshape_fails(size, shape) ==
    IF Cardinality(Unknowns(shape)) > 1 THEN TRUE
    ELSE IF Cardinality(Unknowns(shape)) = 1
         THEN Known(shape) = 0 \/ size % Known(shape) # 0
    ELSE Prod(shape) # size

\* the shape reshape gives the array: the unknown dimension filled in
newshape(size, shape) ==
    [i \in 1..Len(shape) |->
       IF shape[i] < 0 THEN size \div Known(shape) ELSE shape[i]]

\* what pa_2_np._f raises for a column, "" when it raises nothing
pa_2_np_error(col) ==
    IF Len(col) = 0 THEN "IndexError"
    ELSE IF col[1].kind # "struct" THEN "TypeError"
    ELSE IF reshape_fails(Len(col[1].data), col[1].shape) THEN "ValueError"
    ELSE ""

\* row 0 of the column as one-dimensional data, not reshaped
pa_2_np_f_flat(col) ==
    [dtype |-> asarray_dtype(col[1].data, col[1].type),
     shape |-> <<Len(col[1].data)>>,
     val |-> reshape(col[1].data, <<Len(col[1].data)>>)]

\* pa_2_np._f: row 0 of the column, its data reshaped by its shape
pa_2_np_f(col) ==
    LET shape == newshape(Len(col[1].data), col[1].shape)
    IN  [dtype |-> asarray_dtype(col[1].data, col[1].type),
         shape |-> shape,
         val |-> reshape(col[1].data, shape)]

\* the mapping no call returned
NoMapping == [n \in {} |-> None]

\* pa_2_np: every column decoded; the first failure is raised instead
pa_2_np(table) ==
    IF \E n \in DOMAIN table : pa_2_np_error(table[n]) # ""
    THEN [err |-> pa_2_np_error(table[CHOOSE n \in DOMAIN table :
                                          pa_2_np_error(table[n]) # ""]),
          val |-> NoMapping]
    ELSE [err |-> "", val |-> [n \in DOMAIN table |-> pa_2_np_f(table[n])]]

(***************************************************************************)
(* Enumerated inputs.                                                      *)
(***************************************************************************)
RECURSIVE ShapesOfRank(_)
ShapesOfRank(r) ==
    IF r = 0 THEN {<<>>}
    ELSE {<<d>> \o s : d \in 0..MaxExtent, s \in ShapesOfRank(r - 1)}

Shapes == UNION {ShapesOfRank(r) : r \in 0..MaxRank}

\* a value that is different at every index of an array: the digits of the index
RECURSIVE Digits(_)
Digits(idx) == IF idx = <<>> THEN 0 ELSE Head(idx) + 10 * Digits(Tail(idx))

\* the arrays of the model: every shape, every type class, elements all
\* different (the index digits above a base) or all equal (the base)
Arrays ==
    {[dtype |-> t, shape |-> s,
      val |-> [idx \in Indices(s) |-> IF distinct THEN b + 1 + Digits(idx) ELSE b]] :
        t \in DTypes, s \in Shapes, b \in 0..MaxBase, distinct \in BOOLEAN}

Names == {"arr", "m"}

\* np.array(42): the 0-dimensional array of the element 42
Scalar == [dtype |-> "int", shape |-> <<>>, val |-> [idx \in {<<>>} |-> 42]]

\* np.array([1, 2, 3])
Vector == [dtype |-> "int", shape |-> <<3>>,
           val |-> [idx \in Indices(<<3>>) |-> idx[1] + 1]]

\* np.array([[1, 2], [3, 4]])
Matrix == [dtype |-> "int", shape |-> <<2, 2>>,
           val |-> [idx \in Indices(<<2, 2>>) |-> 2 * idx[1] + idx[2] + 1]]

VARIABLES cpc, cdata, ctable, cresult

cvars == <<cpc, cdata, ctable, cresult>>

NoResult == [err |-> "", val |-> NoMapping]

\* the mappings the codec is run on: one array or None under "arr", and
\* possibly a second entry "m" that is None, a scalar or a matrix
CodecInputs ==
    {NoMapping}
    \cup {[n \in {"arr"} |-> a] : a \in Arrays \cup {None, Scalar, Vector, Matrix}}
    \cup {[n \in Names |-> IF n = "arr" THEN a ELSE b] :
            a \in Arrays \cup {None},
            b \in {None} \cup {x \in Arrays : x.dtype = "int" /\ Prod(x.shape) = 1}}

CodecInit ==
    /\ cpc = "encode"
    /\ cdata \in CodecInputs
    /\ ctable = NoColumns
    /\ cresult = NoResult

\* an encode that rejects the empty mapping itself
CodecEncode_Checked ==
    /\ cpc = "encode"
    /\ IF DOMAIN cdata = {}
       THEN /\ cpc' = "done"
            /\ cresult' = [err |-> "ValueError: Empty data", val |-> NoMapping]
            /\ UNCHANGED <<cdata, ctable>>
       ELSE /\ ctable' = np_2_pa(cdata)
            /\ cpc' = "decode"
            /\ UNCHANGED <<cdata, cresult>>

CodecEncode ==
    /\ cpc = "encode"
    /\ ctable' = np_2_pa(cdata)
    /\ cpc' = "decode"
    /\ UNCHANGED <<cdata, cresult>>

CodecDecode ==
    /\ cpc = "decode"
    /\ cresult' = pa_2_np(ctable)
    /\ cpc' = "done"
    /\ UNCHANGED <<cdata, ctable>>

(***************************************************************************)
(* Commands.  A command is a string, here the sequence of its code points; *)
(* on the wire (descriptor, ticket) it is the bytes of its UTF-8 encoding. *)
(***************************************************************************)
\* str.encode(): UTF-8, one byte below U+0080 and two below U+0800
RECURSIVE utf8_encode(_)
utf8_encode(s) ==
    IF s = <<>> THEN <<>>
    ELSE (IF Head(s) < 128 THEN <<Head(s)>>
          ELSE <<192 + (Head(s) \div 64), 128 + (Head(s) % 64)>>)
         \o utf8_encode(Tail(s))

\* bytes.decode("utf-8") of a well-formed encoding
RECURSIVE utf8_decode(_)
utf8_decode(b) ==
    IF b = <<>> THEN <<>>
    ELSE IF Head(b) < 128 THEN <<Head(b)>> \o utf8_decode(Tail(b))
    ELSE <<(Head(b) - 192) * 64 + (b[2] - 128)>> \o utf8_decode(Tail(Tail(b)))

\* Client.descriptor: the descriptor's command is the encoded command
descriptor(command) == utf8_encode(command)

\* fl.Ticket(command): the ticket's bytes are the encoded command
Ticket(command) == utf8_encode(command)

\* the ticket decoded as Latin-1, one character for every byte
extract_command_from_ticket_latin1(ticket) == ticket
\* Server._extract_command_from_ticket
extract_command_from_ticket(ticket) == utf8_decode(ticket)

\* the commands of the model: the empty string and "é" (two bytes in UTF-8)
Commands == {<<>>, <<233>>}

(***************************************************************************)
(* The computation f of a server: the two subclasses of the tests.         *)
(***************************************************************************)
\* EchoServer.f: the input unchanged
EchoServer_f(matrices) == [err |-> "", val |-> matrices]

\* DoubleServer.f: every value times 2; NumPy has no product of text and int
DoubleServer_f(matrices) ==
    IF \E k \in DOMAIN matrices : matrices[k].dtype = "text"
    THEN [err |-> "UFuncTypeError", val |-> NoMapping]
    ELSE [err |-> "",
          val |-> [k \in DOMAIN matrices |->
                     [matrices[k] EXCEPT
                        !.val = [idx \in DOMAIN matrices[k].val |->
                                   matrices[k].val[idx] * 2]]]]

Transforms == {"echo", "double"}

\* Server.f, dispatched to the subclass the server was built from; "inplace"
\* is a subclass whose f doubles the arrays it is handed in place (arr *= 2)
\* and returns them
Server_f(kind, matrices) ==
    IF kind = "echo" THEN EchoServer_f(matrices) ELSE DoubleServer_f(matrices)

\* the arrays f was handed, as its call left them
Server_f_args(kind, matrices) ==
    IF kind = "inplace" /\ DoubleServer_f(matrices).err = ""
    THEN DoubleServer_f(matrices).val
    ELSE matrices

\* decode handing out views of the table's buffers: what f writes into its
\* arrays is written into the table
stored_after_f_view(table, args) == np_2_pa(args)

\* the stored table after f ran on the decoded arrays: as_py() and np.asarray
\* build new objects, so nothing f writes into its arrays reaches the table
stored_after_f(table, args) == table

(***************************************************************************)
(* The server and its clients.                                             *)
(***************************************************************************)
\* the clients, each served by its own handler thread
Procs == {1, 2}

NoHolder == 0

\* the mappings clients write: {}, {"arr": None}, {"arr": [1,2,3]} and
\* {"arr": [[1,2],[3,4]]}
WriteInputs ==
    {NoMapping} \cup {[n \in {"arr"} |-> a] : a \in {None, Vector, Matrix}}

VARIABLES
    storage,    \* Server._storage: command -> table
    lock,       \* Server._lock: the handler holding it, or NoHolder
    transform,  \* which subclass of Server serves
    pc,         \* per client: where it is in write, get or compute
    op,         \* per client: the method it runs
    cmd,        \* per client: the command argument
    data,       \* per client: the data argument
    stream,     \* per client: the write stream opened by flight.do_put
    closes,     \* per client: calls of writer.close in the current write
    res,        \* per client: what the method returned or raised
    h,          \* per client: the server handler serving its request
    lastPut,    \* history: command -> table of the PUT that completed last
    between     \* history, per compute: the last table another handler stored
                \* under its command after its own PUT stored and before its
                \* GET loaded

svars == <<storage, lock, transform, pc, op, cmd, data, stream, closes, res, h,
           lastPut, between>>

\* per client: its with statement and its connection, Client._client
VARIABLE scope

vars == <<svars, cvars, scope>>

\* a Client constructed and not entered: no connection yet
NoScope == [pc |-> "out", conn |-> "none", opens |-> 0, closed |-> 0,
            raised |-> "", outcome |-> ""]

\* a Client inside its with statement: __enter__ has connected
Connected == [NoScope EXCEPT !.pc = "body", !.conn = "open", !.opens = 1]

NoStream == [state |-> "none", ended |-> FALSE, table |-> NoColumns]

\* calls: how often the handler has invoked f
NoHandler == [pc |-> "none", bytes |-> <<>>, command |-> <<>>,
              table |-> NoColumns, out |-> NoColumns, err |-> "", calls |-> 0,
              ack |-> <<>>, seen |-> NoColumns]

NoRes == [err |-> "", table |-> NoColumns, val |-> NoMapping]

NoBetween == [hit |-> FALSE, table |-> NoColumns]

\* dict.setdefault: an existing entry is kept
setitem_keep(st, command, table) ==
    [k \in DOMAIN st \cup {command} |-> IF k \in DOMAIN st THEN st[k] ELSE table]

\* the table stored under one fixed key, the empty command, whatever the command
setitem_fixed(st, command, table) ==
    [k \in DOMAIN st \cup {<<>>} |-> IF k = <<>> THEN table ELSE st[k]]

\* the dict replaced by one holding the new entry alone
setitem_alone(st, command, table) == [k \in {command} |-> table]

\* dict.__setitem__: self._storage[command] = table
setitem(st, command, table) ==
    [k \in DOMAIN st \cup {command} |-> IF k = command THEN table ELSE st[k]]

ServerInit ==
    /\ storage = [k \in {} |-> NoColumns]
    /\ lock = NoHolder
    /\ transform \in Transforms
    /\ pc = [p \in Procs |-> "idle"]
    /\ op = [p \in Procs |-> "none"]
    /\ cmd = [p \in Procs |-> <<>>]
    /\ data = [p \in Procs |-> NoMapping]
    /\ stream = [p \in Procs |-> NoStream]
    /\ closes = [p \in Procs |-> 0]
    /\ res = [p \in Procs |-> NoRes]
    /\ h = [p \in Procs |-> NoHandler]
    /\ lastPut = [k \in {} |-> NoColumns]
    /\ between = [p \in Procs |-> NoBetween]
    /\ scope = [p \in Procs |-> Connected]

CodecIdle ==
    /\ cpc = "off"
    /\ cdata = NoMapping
    /\ ctable = NoColumns
    /\ cresult = NoResult

Init == ServerInit /\ CodecIdle

(***************************************************************************)
(* Client.write, numpy_client.py lines 84-121.                             *)
(***************************************************************************)
\* the checks of write without the one for an empty dictionary
write_error_unchecked(d) ==
    IF num_rows(np_2_pa(d)) = 0 THEN "TypeError: Empty table" ELSE ""

\* the checks of write without the one for a table of no rows
write_error_rows_unchecked(d) ==
    IF DOMAIN d = {} THEN "ValueError: Empty data" ELSE ""

\* what write raises before it opens a stream, "" when it raises nothing
write_error(d) ==
    IF DOMAIN d = {} THEN "ValueError: Empty data"
    ELSE IF num_rows(np_2_pa(d)) = 0 THEN "TypeError: Empty table"
    ELSE ""

\* the handler thread the server starts for a PUT or a GET request
Handler(start, bytes) == [NoHandler EXCEPT !.pc = start, !.bytes = bytes]

\* write up to flight.do_put: the checks, the conversion, the stream opened
\* (the server starts a do_put handler for it); method is write or compute
ClientWrite(p, method, command, d) ==
    /\ pc[p] = "idle"
    /\ op' = [op EXCEPT ![p] = method]
    /\ cmd' = [cmd EXCEPT ![p] = command]
    /\ data' = [data EXCEPT ![p] = d]
    /\ closes' = [closes EXCEPT ![p] = 0]
    /\ IF write_error(d) # ""
       THEN /\ pc' = [pc EXCEPT ![p] = "done"]
            /\ res' = [res EXCEPT ![p] = [NoRes EXCEPT !.err = write_error(d)]]
            /\ UNCHANGED <<stream, h>>
       ELSE /\ pc' = [pc EXCEPT ![p] = "w_write"]
            /\ stream' = [stream EXCEPT ![p] = [NoStream EXCEPT !.state = "open"]]
            /\ h' = [h EXCEPT ![p] = Handler("p_lock", descriptor(command))]
            /\ UNCHANGED res
    /\ UNCHANGED <<storage, lock, transform, lastPut, between>>

\* write_table followed by close without try and finally: a failure of
\* write_table is raised past the call of close
W_WriteTable_NoFinally(p) ==
    /\ pc[p] = "w_write"
    /\ \E sent \in BOOLEAN :
         IF sent
         THEN /\ stream' = [stream EXCEPT ![p].state = "sent", ![p].ended = TRUE,
                                          ![p].table = np_2_pa(data[p])]
              /\ closes' = [closes EXCEPT ![p] = @ + 1]
              /\ UNCHANGED res
         ELSE /\ stream' = [stream EXCEPT ![p].state = "broken"]
              /\ res' = [res EXCEPT ![p].err = "FlightError"]
              /\ UNCHANGED closes
    /\ pc' = [pc EXCEPT ![p] = "w_wait"]
    /\ UNCHANGED <<storage, lock, transform, op, cmd, data, h, lastPut, between>>

\* try: writer.write_table(table) finally: writer.close().  The table is
\* sent or the transport fails; either way close is called, which ends the
\* stream and then waits for the server
W_WriteTable(p) ==
    /\ pc[p] = "w_write"
    /\ \E sent \in BOOLEAN :
         IF sent
         THEN /\ stream' = [stream EXCEPT ![p].state = "sent", ![p].ended = TRUE,
                                          ![p].table = np_2_pa(data[p])]
              /\ UNCHANGED res
         ELSE /\ stream' = [stream EXCEPT ![p].state = "broken", ![p].ended = TRUE]
              /\ res' = [res EXCEPT ![p].err = "FlightError"]
    /\ closes' = [closes EXCEPT ![p] = @ + 1]
    /\ pc' = [pc EXCEPT ![p] = "w_wait"]
    /\ UNCHANGED <<storage, lock, transform, op, cmd, data, h,
                   lastPut, between>>

\* a peer that sends a table of its own through flight.do_put, as
\* test_invalid_table_schema hands one to do_put: the stream opened, the
\* table written, the stream closed
ClientPutTable(p, command, table) ==
    /\ pc[p] = "idle"
    /\ op' = [op EXCEPT ![p] = "put"]
    /\ cmd' = [cmd EXCEPT ![p] = command]
    /\ stream' = [stream EXCEPT ![p] =
                    [state |-> "sent", ended |-> TRUE, table |-> table]]
    /\ closes' = [closes EXCEPT ![p] = 1]
    /\ h' = [h EXCEPT ![p] = Handler("p_lock", descriptor(command))]
    /\ pc' = [pc EXCEPT ![p] = "w_wait"]
    /\ UNCHANGED <<storage, lock, transform, data, res, lastPut, between>>

\* Client.get up to flight.do_get: the server starts a do_get handler
IssueGet(p, command) ==
    /\ h' = [h EXCEPT ![p] = Handler("g_check", Ticket(command))]
    /\ pc' = [pc EXCEPT ![p] = "g_wait"]

\* a compute that goes on to its get whatever its write raised
W_Return_Always(p) ==
    /\ pc[p] = "w_wait"
    /\ h[p].pc = "done"
    /\ LET err == IF res[p].err # "" THEN res[p].err ELSE h[p].err
       IN  IF op[p] # "compute"
           THEN /\ pc' = [pc EXCEPT ![p] = "done"]
                /\ res' = [res EXCEPT ![p].err = err]
                /\ h' = [h EXCEPT ![p] = NoHandler]
           ELSE /\ IssueGet(p, cmd[p])
                /\ UNCHANGED res
    /\ UNCHANGED <<storage, lock, transform, op, cmd, data, stream, closes,
                   lastPut, between>>

\* writer.close() returns once the server's do_put has ended; write raises
\* what write_table raised or what the server answered; compute goes on to get
W_Return(p) ==
    /\ pc[p] = "w_wait"
    /\ h[p].pc = "done"
    /\ LET err == IF res[p].err # "" THEN res[p].err ELSE h[p].err
       IN  IF err # "" \/ op[p] # "compute"
           THEN /\ pc' = [pc EXCEPT ![p] = "done"]
                /\ res' = [res EXCEPT ![p].err = err]
                /\ h' = [h EXCEPT ![p] = NoHandler]
           ELSE /\ IssueGet(p, cmd[p])
                /\ UNCHANGED res
    /\ UNCHANGED <<storage, lock, transform, op, cmd, data, stream, closes,
                   lastPut, between>>

(***************************************************************************)
(* Server.do_put, numpy_server.py lines 93-105.                            *)
(***************************************************************************)
\* with self._lock: acquired; the command decoded from the descriptor
P_Acquire(p) ==
    /\ h[p].pc = "p_lock"
    /\ lock = NoHolder
    /\ lock' = p
    /\ h' = [h EXCEPT ![p].pc = "p_read", ![p].command = utf8_decode(h[p].bytes)]
    /\ UNCHANGED <<storage, transform, pc, op, cmd, data, stream, closes, res,
                   lastPut, between>>

\* a compute whose own PUT has stored and whose GET has not loaded yet
InWindow(q) ==
    /\ op[q] = "compute"
    /\ \/ h[q].pc = "p_release"
       \/ pc[q] = "w_wait" /\ h[q].pc = "done" /\ h[q].err = ""
       \/ h[q].pc = "g_check"
       \/ h[q].pc = "g_load"

\* a do_put that decodes the table it has read and stores it only when it
\* decodes
P_Store_Validating(p) ==
    /\ h[p].pc = "p_read"
    /\ \/ /\ stream[p].state = "sent"
          /\ stream[p].ended
          /\ pa_2_np(stream[p].table).err = ""
          /\ storage' = setitem(storage, h[p].command, stream[p].table)
          /\ h' = [h EXCEPT ![p].pc = "p_release", ![p].table = stream[p].table]
          /\ between' = [q \in DOMAIN between |->
                           IF q # p /\ InWindow(q) /\ cmd[q] = h[p].command
                           THEN [hit |-> TRUE, table |-> stream[p].table]
                           ELSE IF q = p THEN NoBetween ELSE between[q]]
          /\ UNCHANGED lock
       \/ /\ stream[p].state = "sent"
          /\ pa_2_np(stream[p].table).err # ""
          /\ h' = [h EXCEPT ![p].pc = "done",
                              ![p].err = pa_2_np(stream[p].table).err]
          /\ lock' = NoHolder
          /\ UNCHANGED <<storage, between>>
       \/ /\ stream[p].state = "broken"
          /\ h' = [h EXCEPT ![p].pc = "done", ![p].err = "FlightError"]
          /\ lock' = NoHolder
          /\ UNCHANGED <<storage, between>>
    /\ UNCHANGED <<transform, pc, op, cmd, data, stream, closes, res,
                   lastPut>>

\* a do_put with self._lock.acquire() and release() around its statements,
\* without try/finally: an error of read_all leaves the lock held
P_Store_NoRelease(p) ==
    /\ h[p].pc = "p_read"
    /\ \/ /\ stream[p].state = "sent"
          /\ stream[p].ended
          /\ storage' = setitem(storage, h[p].command, stream[p].table)
          /\ h' = [h EXCEPT ![p].pc = "p_release", ![p].table = stream[p].table]
          /\ between' = [q \in DOMAIN between |->
                           IF q # p /\ InWindow(q) /\ cmd[q] = h[p].command
                           THEN [hit |-> TRUE, table |-> stream[p].table]
                           ELSE IF q = p THEN NoBetween ELSE between[q]]
          /\ UNCHANGED lock
       \/ /\ stream[p].state = "broken"
          /\ h' = [h EXCEPT ![p].pc = "done", ![p].err = "FlightError"]
          /\ UNCHANGED <<storage, between, lock>>
    /\ UNCHANGED <<transform, pc, op, cmd, data, stream, closes, res,
                   lastPut>>

\* table = reader.read_all(); self._storage[command] = table.  read_all
\* returns at the end of the stream; when the stream is broken it raises,
\* which leaves the with block and releases the lock
P_Store(p) ==
    /\ h[p].pc = "p_read"
    /\ \/ /\ stream[p].state = "sent"
          /\ stream[p].ended
          /\ storage' = setitem(storage, h[p].command, stream[p].table)
          /\ h' = [h EXCEPT ![p].pc = "p_release", ![p].table = stream[p].table]
          /\ between' = [q \in DOMAIN between |->
                           IF q # p /\ InWindow(q) /\ cmd[q] = h[p].command
                           THEN [hit |-> TRUE, table |-> stream[p].table]
                           ELSE IF q = p THEN NoBetween ELSE between[q]]
          /\ UNCHANGED lock
       \/ /\ stream[p].state = "broken"
          /\ h' = [h EXCEPT ![p].pc = "done", ![p].err = "FlightError"]
          /\ lock' = NoHolder
          /\ UNCHANGED <<storage, between>>
    /\ UNCHANGED <<transform, pc, op, cmd, data, stream, closes, res,
                   lastPut>>

\* a do_put that returns without releasing the lock
P_Release_Keep(p) ==
    /\ h[p].pc = "p_release"
    /\ h' = [h EXCEPT ![p].pc = "done", ![p].ack = descriptor(h[p].command)]
    /\ lastPut' = [k \in DOMAIN lastPut \cup {h[p].command} |->
                     IF k = h[p].command THEN h[p].table ELSE lastPut[k]]
    /\ UNCHANGED <<storage, lock, transform, pc, op, cmd, data, stream, closes,
                   res, between>>

\* the return of an empty descriptor in place of the request's command
P_Release_NoEcho(p) ==
    /\ h[p].pc = "p_release"
    /\ lock' = NoHolder
    /\ h' = [h EXCEPT ![p].pc = "done", ![p].ack = descriptor(<<>>)]
    /\ lastPut' = [k \in DOMAIN lastPut \cup {h[p].command} |->
                     IF k = h[p].command THEN h[p].table ELSE lastPut[k]]
    /\ UNCHANGED <<storage, transform, pc, op, cmd, data, stream, closes, res,
                   between>>

\* the with block left, the lock released; return the descriptor
P_Release(p) ==
    /\ h[p].pc = "p_release"
    /\ lock' = NoHolder
    /\ h' = [h EXCEPT ![p].pc = "done", ![p].ack = descriptor(h[p].command)]
    /\ lastPut' = [k \in DOMAIN lastPut \cup {h[p].command} |->
                     IF k = h[p].command THEN h[p].table ELSE lastPut[k]]
    /\ UNCHANGED <<storage, transform, pc, op, cmd, data, stream, closes, res,
                   between>>

(***************************************************************************)
(* Server.do_get, numpy_server.py lines 124-146.                           *)
(***************************************************************************)
\* the error of a GET for a command that is not stored
NotFound == "FlightServerError: No data found for command"

\* a do_get that takes the lock for its membership test
G_Check_Locked(p) ==
    /\ h[p].pc = "g_check"
    /\ lock = NoHolder
    /\ LET command == extract_command_from_ticket(h[p].bytes)
       IN  IF command \notin DOMAIN storage
           THEN h' = [h EXCEPT ![p].pc = "done", ![p].command = command,
                               ![p].err = NotFound]
           ELSE h' = [h EXCEPT ![p].pc = "g_load", ![p].command = command]
    /\ UNCHANGED <<storage, lock, transform, pc, op, cmd, data, stream, closes,
                   res, lastPut, between>>

\* the lookup without the membership test: a missing command fails in the load
G_Check_NoCheck(p) ==
    /\ h[p].pc = "g_check"
    /\ h' = [h EXCEPT ![p].pc = "g_load",
                      ![p].command = extract_command_from_ticket(h[p].bytes)]
    /\ UNCHANGED <<storage, lock, transform, pc, op, cmd, data, stream, closes,
                   res, lastPut, between>>

\* if command not in self._storage: raise FlightServerError; seen is
\* history: the table that was stored when the test was made
G_Check(p) ==
    /\ h[p].pc = "g_check"
    /\ LET command == extract_command_from_ticket(h[p].bytes)
       IN  IF command \notin DOMAIN storage
           THEN h' = [h EXCEPT ![p].pc = "done", ![p].command = command,
                               ![p].err = NotFound]
           ELSE h' = [h EXCEPT ![p].pc = "g_load", ![p].command = command,
                               ![p].seen = storage[command]]
    /\ UNCHANGED <<storage, lock, transform, pc, op, cmd, data, stream, closes,
                   res, lastPut, between>>

\* the result table without the call of f
get_result_no_f(kind, table) ==
    LET matrices == pa_2_np(table)
    IN  IF matrices.err # ""
        THEN [err |-> matrices.err, table |-> NoColumns, calls |-> 0]
        ELSE [err |-> "", table |-> np_2_pa(matrices.val), calls |-> 0]

\* the result with an error of f caught and raised anew as a server error
get_result_wrapped(kind, table) ==
    LET matrices == pa_2_np(table)
        np_data == Server_f(kind, matrices.val)
    IN  IF matrices.err # ""
        THEN [err |-> matrices.err, table |-> NoColumns, calls |-> 0]
        ELSE IF np_data.err # ""
        THEN [err |-> "FlightServerError", table |-> NoColumns, calls |-> 1]
        ELSE [err |-> "", table |-> np_2_pa(np_data.val), calls |-> 1]

\* result_table = np_2_pa(self.f(pa_2_np(table))), or what a step raises;
\* calls counts the invocations of f
get_result(kind, table) ==
    LET matrices == pa_2_np(table)
        np_data == Server_f(kind, matrices.val)
    IN  IF matrices.err # ""
        THEN [err |-> matrices.err, table |-> NoColumns, calls |-> 0]
        ELSE IF np_data.err # ""
        THEN [err |-> np_data.err, table |-> NoColumns, calls |-> 1]
        ELSE [err |-> "", table |-> np_2_pa(np_data.val), calls |-> 1]

\* a do_get that takes the entry out of the dict: self._storage.pop(command)
G_Load_Pop(p) ==
    /\ h[p].pc = "g_load"
    /\ IF h[p].command \in DOMAIN storage
       THEN LET table == storage[h[p].command]
                r == get_result(transform, table)
            IN  /\ h' = [h EXCEPT ![p].pc = "done", ![p].table = table,
                                  ![p].err = r.err, ![p].out = r.table,
                                  ![p].calls = r.calls]
                /\ storage' = [k \in DOMAIN storage \ {h[p].command} |-> storage[k]]
       ELSE /\ h' = [h EXCEPT ![p].pc = "done", ![p].err = "KeyError"]
            /\ UNCHANGED storage
    /\ UNCHANGED <<lock, transform, pc, op, cmd, data, stream, closes,
                   res, lastPut, between>>

\* a do_get that keeps results: the result another handler has computed
\* from the same table is returned again and f is not invoked
G_Load_Memo(p) ==
    /\ h[p].pc = "g_load"
    /\ IF h[p].command \in DOMAIN storage
       THEN LET table == storage[h[p].command]
                r == get_result(transform, table)
                cached == \E q \in DOMAIN h :
                             /\ q # p /\ h[q].pc = "done" /\ h[q].calls = 1
                             /\ h[q].table = table
            IN  h' = [h EXCEPT ![p].pc = "done", ![p].table = table,
                               ![p].err = r.err, ![p].out = r.table,
                               ![p].calls = IF cached THEN 0 ELSE r.calls]
       ELSE h' = [h EXCEPT ![p].pc = "done", ![p].err = "KeyError"]
    /\ UNCHANGED <<storage, lock, transform, pc, op, cmd, data, stream, closes,
                   res, lastPut, between>>

\* a do_get that operates on the table it saw at its membership test
G_Load_Snapshot(p) ==
    /\ h[p].pc = "g_load"
    /\ LET table == h[p].seen
           r == get_result(transform, table)
       IN  h' = [h EXCEPT ![p].pc = "done", ![p].table = table,
                          ![p].err = r.err, ![p].out = r.table,
                          ![p].calls = r.calls]
    /\ UNCHANGED <<storage, lock, transform, pc, op, cmd, data, stream, closes,
                   res, lastPut, between>>

\* table = self._storage[command], then pa_2_np, f and np_2_pa on the
\* handler's own data; return the stream of the result table
G_Load(p) ==
    /\ h[p].pc = "g_load"
    /\ IF h[p].command \in DOMAIN storage
       THEN LET table == storage[h[p].command]
                r == get_result(transform, table)
                matrices == pa_2_np(table)
            IN  /\ h' = [h EXCEPT ![p].pc = "done", ![p].table = table,
                                  ![p].err = r.err, ![p].out = r.table,
                                  ![p].calls = r.calls]
                /\ storage' =
                     IF matrices.err # "" THEN storage
                     ELSE [storage EXCEPT ![h[p].command] =
                             stored_after_f(table,
                                 Server_f_args(transform, matrices.val))]
       ELSE /\ h' = [h EXCEPT ![p].pc = "done", ![p].err = "KeyError"]
            /\ UNCHANGED storage
    /\ UNCHANGED <<lock, transform, pc, op, cmd, data, stream, closes,
                   res, lastPut, between>>

(***************************************************************************)
(* Client.get and Client.compute, numpy_client.py lines 123-168.           *)
(***************************************************************************)
ClientGet(p, command) ==
    /\ pc[p] = "idle"
    /\ op' = [op EXCEPT ![p] = "get"]
    /\ cmd' = [cmd EXCEPT ![p] = command]
    /\ IssueGet(p, command)
    /\ UNCHANGED <<storage, lock, transform, data, stream, closes, res,
                   lastPut, between>>

\* get decoding the table it received, as compute does
G_Return_Decoded(p) ==
    /\ pc[p] = "g_wait"
    /\ h[p].pc = "done"
    /\ pc' = [pc EXCEPT ![p] = "done"]
    /\ res' = [res EXCEPT ![p] =
                 IF h[p].err # "" THEN [NoRes EXCEPT !.err = h[p].err]
                 ELSE [err |-> pa_2_np(h[p].out).err, table |-> NoColumns,
                       val |-> pa_2_np(h[p].out).val]]
    /\ h' = [h EXCEPT ![p] = NoHandler]
    /\ UNCHANGED <<storage, lock, transform, op, cmd, data, stream, closes,
                   lastPut, between>>

\* reader.read_all(): the table the server streamed, or its error; compute
\* returns pa_2_np of the table
G_Return(p) ==
    /\ pc[p] = "g_wait"
    /\ h[p].pc = "done"
    /\ pc' = [pc EXCEPT ![p] = "done"]
    /\ res' = [res EXCEPT ![p] =
                 IF h[p].err # "" THEN [NoRes EXCEPT !.err = h[p].err]
                 ELSE IF op[p] = "get" THEN [NoRes EXCEPT !.table = h[p].out]
                 ELSE [err |-> pa_2_np(h[p].out).err, table |-> NoColumns,
                       val |-> pa_2_np(h[p].out).val]]
    /\ h' = [h EXCEPT ![p] = NoHandler]
    /\ UNCHANGED <<storage, lock, transform, op, cmd, data, stream, closes,
                   lastPut, between>>

\* the caller takes the result; the client is free for its next call
Finish(p) ==
    /\ pc[p] = "done"
    /\ pc' = [pc EXCEPT ![p] = "idle"]
    /\ op' = [op EXCEPT ![p] = "none"]
    /\ cmd' = [cmd EXCEPT ![p] = <<>>]
    /\ data' = [data EXCEPT ![p] = NoMapping]
    /\ closes' = [closes EXCEPT ![p] = 0]
    /\ res' = [res EXCEPT ![p] = NoRes]
    /\ h' = [h EXCEPT ![p] = NoHandler]
    /\ stream' = [stream EXCEPT ![p] = NoStream]
    /\ between' = [between EXCEPT ![p] = NoBetween]
    /\ UNCHANGED <<storage, lock, transform, lastPut>>

Next ==
    \E p \in Procs :
        \/ \E method \in {"write", "compute"}, command \in Commands,
              d \in WriteInputs :
                ClientWrite(p, method, command, d) /\ UNCHANGED <<cvars, scope>>
        \/ \E command \in Commands : ClientGet(p, command) /\ UNCHANGED <<cvars, scope>>
        \/ W_WriteTable(p) /\ UNCHANGED <<cvars, scope>>
        \/ W_Return(p) /\ UNCHANGED <<cvars, scope>>
        \/ P_Acquire(p) /\ UNCHANGED <<cvars, scope>>
        \/ P_Store(p) /\ UNCHANGED <<cvars, scope>>
        \/ P_Release(p) /\ UNCHANGED <<cvars, scope>>
        \/ G_Check(p) /\ UNCHANGED <<cvars, scope>>
        \/ G_Load(p) /\ UNCHANGED <<cvars, scope>>
        \/ G_Return(p) /\ UNCHANGED <<cvars, scope>>
        \/ Finish(p) /\ UNCHANGED <<cvars, scope>>

Spec == Init /\ [][Next]_vars

CodecStep ==
    \/ CodecEncode /\ UNCHANGED <<svars, scope>>
    \/ CodecDecode /\ UNCHANGED <<svars, scope>>

CodecSpecInit == CodecInit /\ ServerInit

SpecCodec == CodecSpecInit /\ [][CodecStep]_vars

(***************************************************************************)
(* pa_2_np on the tables a peer can send: columns whose row is a struct of *)
(* any data and any shape, negative extents included, or no struct at all. *)
(***************************************************************************)
RECURSIVE RawShapesOfRank(_)
RawShapesOfRank(r) ==
    IF r = 0 THEN {<<>>}
    ELSE {<<d>> \o s : d \in (0..MaxExtent) \cup {-1}, s \in RawShapesOfRank(r - 1)}

RawShapes == UNION {RawShapesOfRank(r) : r \in 0..MaxRank}

\* the data 1, 2, ..., n of every length a shape of the model can ask for
RawData == {[i \in 1..n |-> i] : n \in 0..(MaxExtent * MaxExtent)}

RawRows == {Struct(d, sh, "int64") : d \in RawData, sh \in RawShapes} \cup {Plain(1)}

\* tables of one column, and of a second column that is valid, of the wrong
\* size, or no struct
RawTables ==
    {[n \in {"arr"} |-> <<r>>] : r \in RawRows}
    \cup {[n \in Names |-> IF n = "arr" THEN <<r>> ELSE <<q>>] :
            r \in RawRows,
            q \in {Struct(<<7>>, <<1>>, "int64"), Struct(<<7>>, <<2>>, "int64"),
                   Plain(1)}}

DecodeInit ==
    /\ cpc = "decode"
    /\ cdata = NoMapping
    /\ ctable \in RawTables
    /\ cresult = NoResult
    /\ ServerInit

DecodeStep == CodecDecode /\ UNCHANGED <<svars, scope>>

SpecDecode == DecodeInit /\ [][DecodeStep]_vars

(***************************************************************************)
(* Two clients on one command with the inputs the checks of write let      *)
(* through and the tables a peer can put: a str next to an array, a text   *)
(* array, a column that is no struct, a shape that does not fit the data.  *)
(***************************************************************************)
\* "c"
TableCommand == <<99>>

\* {"arr": [1,2,3], "m": 'a'}: a str where an array is expected
StrInput == [n \in Names |-> IF n = "arr" THEN Vector ELSE PyStr(97)]

\* the table of test_invalid_table_schema: a column of three plain numbers
PlainTable == [n \in {"arr"} |-> <<Plain(1), Plain(2), Plain(3)>>]

\* a struct whose shape holds two elements and whose data holds three
MismatchTable == [n \in {"arr"} |-> <<Struct(<<1, 2, 3>>, <<2>>, "int64")>>]

PutTables == {PlainTable, MismatchTable, np_2_pa([n \in {"arr"} |-> Vector])}

TablesNext ==
    \E p \in Procs :
        \/ ClientWrite(p, "write", TableCommand, StrInput) /\ UNCHANGED <<cvars, scope>>
        \/ \E table \in PutTables :
             ClientPutTable(p, TableCommand, table) /\ UNCHANGED <<cvars, scope>>
        \/ ClientGet(p, TableCommand) /\ UNCHANGED <<cvars, scope>>
        \/ W_WriteTable(p) /\ UNCHANGED <<cvars, scope>>
        \/ W_Return(p) /\ UNCHANGED <<cvars, scope>>
        \/ P_Acquire(p) /\ UNCHANGED <<cvars, scope>>
        \/ P_Store(p) /\ UNCHANGED <<cvars, scope>>
        \/ P_Release(p) /\ UNCHANGED <<cvars, scope>>
        \/ G_Check(p) /\ UNCHANGED <<cvars, scope>>
        \/ G_Load(p) /\ UNCHANGED <<cvars, scope>>
        \/ G_Return(p) /\ UNCHANGED <<cvars, scope>>
        \/ Finish(p) /\ UNCHANGED <<cvars, scope>>

SpecTables == Init /\ [][TablesNext]_vars

(***************************************************************************)
(* N concurrent PUTs with pairwise distinct commands, as in                *)
(* test_thread_safety_put: every client has opened its stream, sent its    *)
(* table and called close; the handlers run in any interleaving.           *)
(***************************************************************************)
\* number of concurrent PUTs
NumPutters == 3

Putters == 1..NumPutters

\* "c1", "c2", ...: one command per PUT
PutCommand(p) == <<99, 48 + p>>

PutsInit ==
    /\ storage = [k \in {} |-> NoColumns]
    /\ lock = NoHolder
    /\ transform = "echo"
    /\ pc = [p \in Putters |-> "w_wait"]
    /\ op = [p \in Putters |-> "write"]
    /\ cmd = [p \in Putters |-> PutCommand(p)]
    /\ data \in [Putters -> {[n \in {"arr"} |-> a] : a \in {Vector, Matrix}}]
    /\ stream = [p \in Putters |->
                   [state |-> "sent", ended |-> TRUE, table |-> np_2_pa(data[p])]]
    /\ closes = [p \in Putters |-> 1]
    /\ res = [p \in Putters |-> NoRes]
    /\ h = [p \in Putters |-> Handler("p_lock", descriptor(PutCommand(p)))]
    /\ lastPut = [k \in {} |-> NoColumns]
    /\ between = [p \in Putters |-> NoBetween]
    /\ scope = [p \in Procs |-> Connected]
    /\ CodecIdle

PutsNext ==
    \E p \in Putters :
        \/ P_Acquire(p) /\ UNCHANGED <<cvars, scope>>
        \/ P_Store(p) /\ UNCHANGED <<cvars, scope>>
        \/ P_Release(p) /\ UNCHANGED <<cvars, scope>>
        \/ W_Return(p) /\ UNCHANGED <<cvars, scope>>

SpecPuts == PutsInit /\ [][PutsNext]_vars

(***************************************************************************)
(* The connection scope of a Client, numpy_client.py lines 36-58: the      *)
(* with statement around the calls of a client.                            *)
(***************************************************************************)
\* Client.__enter__: self._client = fl.connect(...)
ScopeEnter(p) ==
    /\ scope[p].pc = "out"
    /\ scope' = [scope EXCEPT ![p] = [@ EXCEPT !.pc = "body", !.conn = "open",
                                                !.opens = @ + 1]]
    /\ UNCHANGED svars

\* the body of the with statement is left: it completed (e is empty), it
\* raised an error of its own between two calls, or a call of the client
\* raised and the body did not catch it
ScopeBody(p, e) ==
    /\ scope[p].pc = "body"
    /\ \/ pc[p] = "idle" /\ e \in {"", "RuntimeError"}
       \/ pc[p] = "done" /\ res[p].err # "" /\ e = res[p].err
    /\ scope' = [scope EXCEPT ![p] = [@ EXCEPT !.pc = "exit", !.raised = e]]
    /\ UNCHANGED svars

\* an __exit__ that re-raises before it closes
ScopeExit_RaiseFirst(p) ==
    /\ scope[p].pc = "exit"
    /\ scope' = [scope EXCEPT ![p] =
                   IF scope[p].raised # ""
                   THEN [@ EXCEPT !.pc = "left", !.outcome = scope[p].raised]
                   ELSE [@ EXCEPT !.pc = "left", !.conn = "closed",
                                  !.closed = @ + 1]]
    /\ UNCHANGED svars

\* Client.__exit__: self._client.close(), then raise if exc_val; returning
\* None does not suppress the error either
ScopeExit(p) ==
    /\ scope[p].pc = "exit"
    /\ scope' = [scope EXCEPT ![p] =
                   [@ EXCEPT !.pc = "left", !.conn = "closed",
                             !.closed = @ + 1, !.outcome = scope[p].raised]]
    /\ UNCHANGED svars

\* what the body writes: nothing or None only, which write rejects, or a
\* vector
ScopeInputs == {NoMapping} \cup {[n \in {"arr"} |-> a] : a \in {None, Vector}}

\* the clients start outside their with statements
ScopeInit ==
    /\ storage = [k \in {} |-> NoColumns]
    /\ lock = NoHolder
    /\ transform \in Transforms
    /\ pc = [p \in Procs |-> "idle"]
    /\ op = [p \in Procs |-> "none"]
    /\ cmd = [p \in Procs |-> <<>>]
    /\ data = [p \in Procs |-> NoMapping]
    /\ stream = [p \in Procs |-> NoStream]
    /\ closes = [p \in Procs |-> 0]
    /\ res = [p \in Procs |-> NoRes]
    /\ h = [p \in Procs |-> NoHandler]
    /\ lastPut = [k \in {} |-> NoColumns]
    /\ between = [p \in Procs |-> NoBetween]
    /\ scope = [p \in Procs |-> NoScope]
    /\ CodecIdle

\* the calls of a client are made in the body of its with statement
ScopeNext ==
    \E p \in Procs :
        \/ ScopeEnter(p) /\ UNCHANGED cvars
        \/ \E e \in {"", "RuntimeError", res[p].err} :
              ScopeBody(p, e) /\ UNCHANGED cvars
        \/ ScopeExit(p) /\ UNCHANGED cvars
        \/ \E method \in {"write", "compute"}, d \in ScopeInputs :
              /\ scope[p].pc = "body"
              /\ ClientWrite(p, method, TableCommand, d)
              /\ UNCHANGED <<cvars, scope>>
        \/ /\ scope[p].pc = "body"
           /\ ClientGet(p, TableCommand)
           /\ UNCHANGED <<cvars, scope>>
        \/ W_WriteTable(p) /\ UNCHANGED <<cvars, scope>>
        \/ W_Return(p) /\ UNCHANGED <<cvars, scope>>
        \/ P_Acquire(p) /\ UNCHANGED <<cvars, scope>>
        \/ P_Store(p) /\ UNCHANGED <<cvars, scope>>
        \/ P_Release(p) /\ UNCHANGED <<cvars, scope>>
        \/ G_Check(p) /\ UNCHANGED <<cvars, scope>>
        \/ G_Load(p) /\ UNCHANGED <<cvars, scope>>
        \/ G_Return(p) /\ UNCHANGED <<cvars, scope>>
        \/ /\ scope[p].pc = "body"
           /\ Finish(p)
           /\ UNCHANGED <<cvars, scope>>

SpecScope == ScopeInit /\ [][ScopeNext]_vars

(***************************************************************************)
(* Handlers and the lock: writes and gets of two clients over two          *)
(* commands, with a vector or a matrix as the data.                        *)
(***************************************************************************)
LockInputs == {[n \in {"arr"} |-> a] : a \in {Vector, Matrix}}

LockNext ==
    \E p \in Procs :
        \/ \E command \in Commands, d \in LockInputs :
              ClientWrite(p, "write", command, d) /\ UNCHANGED <<cvars, scope>>
        \/ \E command \in Commands :
              ClientGet(p, command) /\ UNCHANGED <<cvars, scope>>
        \/ W_WriteTable(p) /\ UNCHANGED <<cvars, scope>>
        \/ W_Return(p) /\ UNCHANGED <<cvars, scope>>
        \/ P_Acquire(p) /\ UNCHANGED <<cvars, scope>>
        \/ P_Store(p) /\ UNCHANGED <<cvars, scope>>
        \/ P_Release(p) /\ UNCHANGED <<cvars, scope>>
        \/ G_Check(p) /\ UNCHANGED <<cvars, scope>>
        \/ G_Load(p) /\ UNCHANGED <<cvars, scope>>
        \/ G_Return(p) /\ UNCHANGED <<cvars, scope>>
        \/ Finish(p) /\ UNCHANGED <<cvars, scope>>

SpecLock == Init /\ [][LockNext]_vars

(***************************************************************************)
(* A Transform that writes into its input: the scenario of SpecTables      *)
(* with a server whose f doubles its arrays in place.                      *)
(***************************************************************************)
InPlaceInit ==
    /\ storage = [k \in {} |-> NoColumns]
    /\ lock = NoHolder
    /\ transform = "inplace"
    /\ pc = [p \in Procs |-> "idle"]
    /\ op = [p \in Procs |-> "none"]
    /\ cmd = [p \in Procs |-> <<>>]
    /\ data = [p \in Procs |-> NoMapping]
    /\ stream = [p \in Procs |-> NoStream]
    /\ closes = [p \in Procs |-> 0]
    /\ res = [p \in Procs |-> NoRes]
    /\ h = [p \in Procs |-> NoHandler]
    /\ lastPut = [k \in {} |-> NoColumns]
    /\ between = [p \in Procs |-> NoBetween]
    /\ scope = [p \in Procs |-> Connected]
    /\ CodecIdle

SpecInPlace == InPlaceInit /\ [][TablesNext]_vars

(***************************************************************************)
(* Command keys: client 1 writes under one command string while client 2   *)
(* gets another one, or the same.                                          *)
(***************************************************************************)
MaxCommandLen == 2

\* code points of one byte and of two bytes in UTF-8
CodePoints == {97, 128, 2047}

RECURSIVE StringsOfLen(_)
StringsOfLen(n) ==
    IF n = 0 THEN {<<>>}
    ELSE {<<c>> \o s : c \in CodePoints, s \in StringsOfLen(n - 1)}

\* the command strings, the empty one among them
CommandStrings == UNION {StringsOfLen(n) : n \in 0..MaxCommandLen}

KeysInit ==
    /\ storage = [k \in {} |-> NoColumns]
    /\ lock = NoHolder
    /\ transform = "echo"
    /\ pc = [p \in Procs |-> "idle"]
    /\ op = [p \in Procs |-> "none"]
    /\ cmd \in [Procs -> CommandStrings]
    /\ data = [p \in Procs |-> NoMapping]
    /\ stream = [p \in Procs |-> NoStream]
    /\ closes = [p \in Procs |-> 0]
    /\ res = [p \in Procs |-> NoRes]
    /\ h = [p \in Procs |-> NoHandler]
    /\ lastPut = [k \in {} |-> NoColumns]
    /\ between = [p \in Procs |-> NoBetween]
    /\ scope = [p \in Procs |-> Connected]
    /\ CodecIdle

\* client 1 calls write(cmd[1], {"arr": [1,2,3]}), client 2 get(cmd[2])
KeysNext ==
    \/ ClientWrite(1, "write", cmd[1], [n \in {"arr"} |-> Vector])
         /\ UNCHANGED <<cvars, scope>>
    \/ ClientGet(2, cmd[2]) /\ UNCHANGED <<cvars, scope>>
    \/ W_WriteTable(1) /\ UNCHANGED <<cvars, scope>>
    \/ W_Return(1) /\ UNCHANGED <<cvars, scope>>
    \/ P_Acquire(1) /\ UNCHANGED <<cvars, scope>>
    \/ P_Store(1) /\ UNCHANGED <<cvars, scope>>
    \/ P_Release(1) /\ UNCHANGED <<cvars, scope>>
    \/ G_Check(2) /\ UNCHANGED <<cvars, scope>>
    \/ G_Load(2) /\ UNCHANGED <<cvars, scope>>
    \/ G_Return(2) /\ UNCHANGED <<cvars, scope>>

SpecKeys == KeysInit /\ [][KeysNext]_vars

(***************************************************************************)
(* N concurrent PUTs for one command: as SpecPuts, with every client       *)
(* writing under the same command.                                         *)
(***************************************************************************)
SameInit ==
    /\ storage = [k \in {} |-> NoColumns]
    /\ lock = NoHolder
    /\ transform = "echo"
    /\ pc = [p \in Putters |-> "w_wait"]
    /\ op = [p \in Putters |-> "write"]
    /\ cmd = [p \in Putters |-> TableCommand]
    /\ data \in [Putters -> LockInputs]
    /\ stream = [p \in Putters |->
                   [state |-> "sent", ended |-> TRUE, table |-> np_2_pa(data[p])]]
    /\ closes = [p \in Putters |-> 1]
    /\ res = [p \in Putters |-> NoRes]
    /\ h = [p \in Putters |-> Handler("p_lock", descriptor(TableCommand))]
    /\ lastPut = [k \in {} |-> NoColumns]
    /\ between = [p \in Putters |-> NoBetween]
    /\ scope = [p \in Procs |-> Connected]
    /\ CodecIdle

SpecSame == SameInit /\ [][PutsNext]_vars

(***************************************************************************)
(* Progress: N requests for one command in flight, each a PUT whose table  *)
(* has been sent or a GET, with handler threads that are scheduled fairly. *)
(***************************************************************************)
LiveInit ==
    /\ storage = [k \in {} |-> NoColumns]
    /\ lock = NoHolder
    /\ transform = "echo"
    /\ op \in [Putters -> {"write", "get"}]
    /\ pc = [p \in Putters |-> IF op[p] = "write" THEN "w_wait" ELSE "g_wait"]
    /\ cmd = [p \in Putters |-> TableCommand]
    /\ data = [p \in Putters |->
                 IF op[p] = "write" THEN [n \in {"arr"} |-> Vector] ELSE NoMapping]
    /\ stream = [p \in Putters |->
                   IF op[p] = "write"
                   THEN [state |-> "sent", ended |-> TRUE,
                         table |-> np_2_pa(data[p])]
                   ELSE NoStream]
    /\ closes = [p \in Putters |-> IF op[p] = "write" THEN 1 ELSE 0]
    /\ res = [p \in Putters |-> NoRes]
    /\ h = [p \in Putters |->
              IF op[p] = "write" THEN Handler("p_lock", descriptor(TableCommand))
              ELSE Handler("g_check", Ticket(TableCommand))]
    /\ lastPut = [k \in {} |-> NoColumns]
    /\ between = [p \in Putters |-> NoBetween]
    /\ scope = [p \in Procs |-> Connected]
    /\ CodecIdle

LiveNext ==
    \E p \in Putters :
        \/ P_Acquire(p) /\ UNCHANGED <<cvars, scope>>
        \/ P_Store(p) /\ UNCHANGED <<cvars, scope>>
        \/ P_Release(p) /\ UNCHANGED <<cvars, scope>>
        \/ W_Return(p) /\ UNCHANGED <<cvars, scope>>
        \/ G_Check(p) /\ UNCHANGED <<cvars, scope>>
        \/ G_Load(p) /\ UNCHANGED <<cvars, scope>>
        \/ G_Return(p) /\ UNCHANGED <<cvars, scope>>

\* a step of the handler thread of request p
HandlerRun(p) ==
    P_Acquire(p) \/ P_Store(p) \/ P_Release(p) \/ G_Check(p) \/ G_Load(p)

\* a step of some handler thread
HandlerStep == \E p \in DOMAIN h : HandlerRun(p)

\* every handler thread that can run does run in the end
LiveFairness ==
    \A p \in Putters : WF_vars(HandlerRun(p) /\ UNCHANGED <<cvars, scope>>)

SpecLive == LiveInit /\ [][LiveNext]_vars /\ LiveFairness

(***************************************************************************)
(* Properties.                                                             *)
(***************************************************************************)
\* client p waits for, or has, the answer of a do_get handler that ended
GetEnded(p) == pc[p] = "g_wait" /\ h[p].pc = "done"

\* some do_put handler for command c has started and not ended
PutInFlight(c) ==
    \E q \in DOMAIN h : h[q].pc \in {"p_lock", "p_read", "p_release"} /\ cmd[q] = c

\* mapping r holds the names and shapes of mapping m and, element for
\* element, its values: as they are under Echo, times 2 under Double
Expected(kind, m, r) ==
    /\ DOMAIN r = DOMAIN m
    /\ \A n \in DOMAIN m :
         /\ r[n].shape = m[n].shape
         /\ DOMAIN r[n].val = DOMAIN m[n].val
         /\ \A idx \in DOMAIN m[n].val :
              r[n].val[idx] = (IF kind = "double" THEN 2 ELSE 1) * m[n].val[idx]

C2_Original ==
    \A p \in Procs :
        (pc[p] = "g_wait" /\ h[p].pc \in {"g_load", "done"}
           /\ cmd[p] \notin DOMAIN lastPut)
        => (h[p].err = NotFound /\ h[p].out = NoColumns)

\* C2, the part that holds: a GET for c whose membership check runs when no
\* PUT for c has
\* completed and no PUT for c in progress has already stored its table fails
\* NotFound and returns no table, whatever else is stored.
C2_NotFound ==
    [][\A p \in Procs :
         (/\ h[p].pc = "g_check" /\ h'[p].pc # "g_check"
          /\ cmd[p] \notin DOMAIN lastPut
          /\ ~\E q \in Procs : h[q].pc = "p_release" /\ h[q].command = cmd[p])
         => (h'[p].pc = "done" /\ h'[p].err = NotFound
               /\ h'[p].out = NoColumns /\ h'[p].table = NoColumns)]_vars

\* a GET failed NotFound while another command was stored
C2_Witness ==
    \E p \in Procs :
        /\ GetEnded(p) /\ h[p].err = NotFound
        /\ cmd[p] \notin DOMAIN storage
        /\ DOMAIN storage # {}

PutsAllDone == \A p \in DOMAIN pc : pc[p] = "done"

\* C3: concurrent PUTs with pairwise distinct commands.  In every
\* interleaving some PUT can proceed until all have completed, none fails,
\* and then the Store holds exactly the N commands, each with the table its
\* own PUT supplied.
C3_DistinctKeyPuts ==
    /\ \A p \in DOMAIN pc : res[p].err = "" /\ h[p].err = ""
    /\ ~PutsAllDone => ENABLED PutsNext
    /\ PutsAllDone =>
         /\ DOMAIN storage = {cmd[p] : p \in DOMAIN pc}
         /\ \A p \in DOMAIN pc : storage[cmd[p]] = stream[p].table

\* all PUTs completed, two of them with different tables
C3_Witness ==
    /\ PutsAllDone
    /\ \E p, q \in DOMAIN pc : stream[p].table # stream[q].table
    /\ \A p \in DOMAIN pc : storage[cmd[p]] = stream[p].table

\* C4: reads and mutations of the mapping are serialized by the lock: no
\* do_get handler is between its membership check and its read of the mapping,
\* or about to check, while a do_put handler holds the lock and is about to
\* mutate the mapping.
C4_Serialized ==
    \A p, q \in Procs :
        ~(/\ lock = p /\ h[p].pc = "p_read"
          /\ h[q].pc \in {"g_check", "g_load"})

\* C5: the GET pipeline.  A GET that succeeds for command c returns a table
\* that decodes to the names and shapes of the stored table it loaded and to
\* its values as transformed: the same values under the identity.
C5_GetPipeline ==
    \A p \in Procs :
        (GetEnded(p) /\ h[p].err = "")
        => /\ h[p].command = cmd[p]
           /\ pa_2_np(h[p].table).err = ""
           /\ pa_2_np(h[p].out).err = ""
           /\ Expected(transform, pa_2_np(h[p].table).val, pa_2_np(h[p].out).val)

\* under the identity, a GET after a completed PUT(c, T) returned a table that
\* decodes to the matrix T encodes
C5_Witness ==
    \E p \in Procs :
        /\ GetEnded(p) /\ h[p].err = "" /\ transform = "echo"
        /\ cmd[p] \in DOMAIN lastPut
        /\ h[p].table = lastPut[cmd[p]]
        /\ h[p].table = np_2_pa([n \in {"arr"} |-> Matrix])
        /\ pa_2_np(h[p].out).val = [n \in {"arr"} |-> Matrix]

\* every entry of mapping m is an array
WellTyped(m) == \A n \in DOMAIN m : m[n] # None

\* C6: the codec round trip.  For every mapping with at least one entry and
\* every entry an array, pa_2_np(np_2_pa(M)) raises nothing and has exactly
\* the names of M, each with the shape and, element for element, the values
\* of M's array.
C6_RoundTrip ==
    (cpc = "done" /\ DOMAIN cdata # {} /\ WellTyped(cdata))
    => /\ cresult.err = ""
       /\ DOMAIN cresult.val = DOMAIN cdata
       /\ \A n \in DOMAIN cdata :
            /\ cresult.val[n].shape = cdata[n].shape
            /\ cresult.val[n].val = cdata[n].val

\* a 2 x 2 matrix of four different values and a one-element array went
\* through the round trip
C6_Witness ==
    /\ cpc = "done" /\ DOMAIN cdata = Names /\ WellTyped(cdata)
    /\ cdata["arr"].shape = <<2, 2>>
    /\ Cardinality({cdata["arr"].val[idx] : idx \in Indices(<<2, 2>>)}) = 4
    /\ cresult.val["arr"].val = cdata["arr"].val
    /\ cresult.val["m"].shape = <<>>

\* C7: compute is not atomic.  When another writer's PUT stored a table under
\* the command after the compute's own PUT stored and before its GET loaded,
\* the compute returns the result computed from that other table.
C7_ComputeNotAtomic ==
    \A p \in Procs :
        (pc[p] = "done" /\ op[p] = "compute" /\ res[p].err = "" /\ between[p].hit)
        => Expected(transform, pa_2_np(between[p].table).val, res[p].val)

\* compute(c, vector) returned the result of another writer's matrix
C7_Witness ==
    \E p \in Procs :
        /\ pc[p] = "done" /\ op[p] = "compute" /\ res[p].err = ""
        /\ data[p] = [n \in {"arr"} |-> Vector]
        /\ between[p].hit
        /\ between[p].table = np_2_pa([n \in {"arr"} |-> Matrix])
        /\ res[p].val["arr"].shape = <<2, 2>>
        /\ ~Expected(transform, data[p], res[p].val)

\* C8: with no other writer storing under the command between the two round
\* trips, and the table sent, compute(c, M) for a non-empty M of arrays
\* returns Transform(M): the names and shapes of M, the values times 2 under
\* Double.
C8_ComputeOwn ==
    \A p \in Procs :
        (/\ pc[p] = "done" /\ op[p] = "compute"
         /\ DOMAIN data[p] # {} /\ WellTyped(data[p])
         /\ stream[p].state = "sent"
         /\ ~between[p].hit)
        => (res[p].err = "" /\ Expected(transform, data[p], res[p].val))

\* under Double, compute(c, {arr: [1,2,3]}) returned {arr: [2,4,6]}
C8_Witness ==
    \E p \in Procs :
        /\ pc[p] = "done" /\ op[p] = "compute" /\ transform = "double"
        /\ data[p] = [n \in {"arr"} |-> Vector]
        /\ ~between[p].hit
        /\ res[p].err = ""
        /\ res[p].val["arr"].shape = <<3>>
        /\ flatten(res[p].val["arr"]) = <<2, 4, 6>>

\* C9: once the write stream is open, write calls writer.close exactly once,
\* whether write_table returned or raised, and what write_table raised is
\* raised by write.
C9_WriterClosed ==
    \A p \in Procs :
        /\ stream[p].state = "open" => (pc[p] = "w_write" /\ closes[p] = 0)
        /\ stream[p].state \in {"sent", "broken"} =>
             (closes[p] = 1 /\ stream[p].ended)
        /\ stream[p].state = "broken" => res[p].err = "FlightError"
        /\ stream[p].state = "none" => closes[p] = 0

\* a write whose write_table failed ended with the error, the writer closed
C9_Witness ==
    \E p \in Procs :
        /\ pc[p] = "done" /\ op[p] = "write"
        /\ stream[p].state = "broken"
        /\ closes[p] = 1
        /\ res[p].err = "FlightError"

\* C10: write with an empty mapping raises ValueError "Empty data" before any
\* transmission: no stream is opened, no do_put handler runs, close is not
\* called and the Store is as it was.
C10_EmptyWrite ==
    [][\A p \in Procs :
         (pc[p] = "idle" /\ op'[p] \in {"write", "compute"} /\ DOMAIN data'[p] = {})
         => /\ pc'[p] = "done"
            /\ res'[p].err = "ValueError: Empty data"
            /\ stream'[p] = NoStream
            /\ h'[p] = NoHandler
            /\ closes'[p] = 0
            /\ storage' = storage]_vars

\* a write of {} ended with ValueError while the Store held an entry
C10_Witness ==
    \E p \in Procs :
        /\ pc[p] = "done" /\ op[p] = "write" /\ DOMAIN data[p] = {}
        /\ res[p].err = "ValueError: Empty data"
        /\ stream[p] = NoStream
        /\ DOMAIN storage # {}

\* C11 as stated: np_2_pa applied to the mapping without entries fails and
\* hands no table on.
C11_Original ==
    (DOMAIN cdata = {} /\ cpc # "encode")
    => (cpc = "done" /\ cresult.err # "")

\* C11, amended: np_2_pa applied to the mapping without entries does not fail;
\* the call returns, and what it returns is the table without columns.
C11_EmptyEncodes ==
    [][(cpc = "encode" /\ DOMAIN cdata = {})
       => (cpc' = "decode" /\ ctable' = NoColumns /\ cresult' = NoResult)]_vars

\* np_2_pa returned for the mapping without entries
C11_Witness == cpc = "decode" /\ DOMAIN cdata = {} /\ ctable = NoColumns

\* C12: np_2_pa({}) returns a table of 0 rows and 0 columns, and nothing is
\* raised.
C12_EmptyDict ==
    (DOMAIN cdata = {} /\ cpc # "encode")
    => (DOMAIN ctable = {} /\ num_rows(ctable) = 0 /\ cresult.err = "")

\* the table of the empty dictionary, with no row and no column
C12_Witness ==
    /\ cpc = "done" /\ DOMAIN cdata = {}
    /\ Cardinality(DOMAIN ctable) = 0 /\ num_rows(ctable) = 0

\* C13: null filtering.  The columns of np_2_pa(M) are exactly the names of M
\* whose value is not None, each one column of one row; a mapping with
\* entries that are all None encodes, without failing, to the table without
\* columns.
C13_NullFiltering ==
    cpc # "encode"
    => /\ DOMAIN ctable = {k \in DOMAIN cdata : cdata[k] # None}
       /\ \A k \in DOMAIN ctable : Len(ctable[k]) = 1
       /\ (DOMAIN cdata # {} /\ \A k \in DOMAIN cdata : cdata[k] = None)
            => (ctable = NoColumns /\ cresult.err = "")

\* of two entries the one that is None was dropped and the other became the
\* only column
C13_Witness ==
    /\ cpc = "done" /\ DOMAIN cdata = Names
    /\ cdata["arr"] = None /\ cdata["m"] # None
    /\ DOMAIN ctable = {"m"}

\* two entries, both None, encoded to the table without columns
C13_WitnessAllNone ==
    /\ cpc = "done" /\ DOMAIN cdata = Names
    /\ \A k \in Names : cdata[k] = None
    /\ ctable = NoColumns

\* C14: write (and compute, which calls write) with a mapping that has
\* entries, all of them None, raises TypeError "Empty table" before any
\* transmission: no stream is opened, no do_put handler is started and the
\* Store is as it was.
C14_AllNoneWrite ==
    [][\A p \in Procs :
         (/\ pc[p] = "idle" /\ op'[p] \in {"write", "compute"}
          /\ DOMAIN data'[p] # {}
          /\ \A k \in DOMAIN data'[p] : data'[p][k] = None)
         => /\ pc'[p] = "done"
            /\ res'[p].err = "TypeError: Empty table"
            /\ stream'[p] = NoStream
            /\ h'[p] = NoHandler
            /\ closes'[p] = 0
            /\ storage' = storage]_vars

\* a write of {arr: None} ended with TypeError while the Store held an entry
C14_Witness ==
    \E p \in Procs :
        /\ pc[p] = "done" /\ op[p] = "write"
        /\ data[p] = [n \in {"arr"} |-> None]
        /\ res[p].err = "TypeError: Empty table"
        /\ stream[p] = NoStream /\ h[p] = NoHandler
        /\ DOMAIN storage # {}

\* every column of the table is one row that is a struct of data and shape
AllStruct(table) ==
    \A n \in DOMAIN table : Len(table[n]) = 1 /\ table[n][1].kind = "struct"

\* C16: pa_2_np fails with ValueError, returning no mapping, for every table
\* of struct columns one of which has a shape whose product is not the
\* length of its data; and it never returns an array whose number of
\* elements is not the length of its data.
C16_ShapeMismatch ==
    /\ (/\ cpc = "done" /\ AllStruct(ctable)
        /\ \E n \in DOMAIN ctable :
             Prod(ctable[n][1].shape) # Len(ctable[n][1].data))
       => (cresult.err = "ValueError" /\ cresult.val = NoMapping)
    /\ (cpc = "done" /\ cresult.err = "")
       => \A n \in DOMAIN cresult.val :
            Cardinality(DOMAIN cresult.val[n].val) = Len(ctable[n][1].data)

\* some entry of mapping m is a str, not an array
HasStr(m) == \E k \in DOMAIN m : m[k].dtype = "str"

\* C15: a write whose mapping holds a str next to an array raises ValueError:
\* the call ends with that error, the conversion to a table having failed,
\* and nothing is transmitted.
C15_NotAnArray ==
    \A p \in Procs :
        (op[p] = "write" /\ HasStr(data[p]))
        => /\ pc[p] = "done"
           /\ res[p].err \in {"ValueError", "ValueError: Empty data"}
           /\ stream[p] = NoStream

\* table does not decode
Invalid(table) == pa_2_np(table).err # ""

\* C17: do_put neither decodes nor validates.  It stores the table it has
\* read, valid or not, under the command and ends without error, so that the
\* peer is acknowledged; a GET that loads a table that does not decode fails
\* with the error of the decoding, returns no table and leaves the Store as
\* it is, the table still in it.
C17_PutNoValidation ==
    [][\A p \in Procs :
         /\ (h[p].pc = "p_read" /\ stream[p].state = "sent" /\ h'[p] # h[p])
            => /\ h'[p].pc = "p_release" /\ h'[p].err = ""
               /\ h[p].command \in DOMAIN storage'
               /\ storage'[h[p].command] = stream[p].table
         /\ (pc[p] = "w_wait" /\ pc'[p] = "done" /\ op[p] = "put")
            => res'[p].err = ""
         /\ (h[p].pc = "g_load" /\ h'[p].pc = "done" /\ Invalid(h'[p].table))
            => /\ h'[p].err = pa_2_np(h'[p].table).err
               /\ h'[p].out = NoColumns
               /\ storage' = storage
               /\ storage[h[p].command] = h'[p].table]_vars

\* the table of plain numbers was put and acknowledged, a GET of the command
\* failed with TypeError, and the table is still stored
C17_Witness ==
    \E p \in Procs :
        /\ GetEnded(p) /\ h[p].err = "TypeError"
        /\ h[p].table = PlainTable
        /\ cmd[p] \in DOMAIN lastPut /\ lastPut[cmd[p]] = PlainTable
        /\ storage[cmd[p]] = PlainTable

\* C18: GET never modifies the Store.  No step of a GET, in the client or in
\* the do_get handler, whether the GET ends with a result, NotFound, an error
\* of the decoding or an error of f, changes the keys of the mapping or a
\* stored table.
C18_GetFrame ==
    [][\A p \in Procs :
         (\/ pc[p] = "idle" /\ pc'[p] = "g_wait"
          \/ h[p].pc \in {"g_check", "g_load"} /\ h'[p] # h[p]
          \/ pc[p] = "g_wait" /\ pc'[p] = "done")
         => storage' = storage]_vars

\* one GET ended with an error of the decoding and another with an error of
\* f, and the table the second one loaded is still stored
C18_Witness ==
    \E p, q \in Procs :
        /\ GetEnded(p) /\ h[p].err = "ValueError"
        /\ GetEnded(q) /\ h[q].err = "UFuncTypeError"
        /\ storage[cmd[q]] = h[q].table

\* C19 as stated: every GET that finds its command has invoked f exactly once
\* when it ends.
C19_Original ==
    \A p \in Procs :
        (GetEnded(p) /\ h[p].err # NotFound) => h[p].calls = 1

\* C19, amended: every GET that finds its command and whose stored table
\* decodes invokes f exactly once, on its own decoding of the table it
\* loaded; a GET whose table does not decode does not invoke f.  So two GETs
\* of one command on the same stored table invoke f twice.
C19_NoMemoization ==
    \A p \in Procs :
        (GetEnded(p) /\ h[p].err # NotFound)
        => /\ h[p].calls = (IF Invalid(h[p].table) THEN 0 ELSE 1)
           /\ h[p].err = ""
              => Expected(transform, pa_2_np(h[p].table).val, pa_2_np(h[p].out).val)

\* two GETs of the command loaded the same stored table and each invoked f
C19_Witness ==
    \E p, q \in Procs :
        /\ p # q /\ GetEnded(p) /\ GetEnded(q)
        /\ h[p].err = "" /\ h[q].err = ""
        /\ h[p].table = h[q].table /\ h[p].table = storage[cmd[p]]
        /\ h[p].calls = 1 /\ h[q].calls = 1

\* table decodes and has a column of text
HasText(table) ==
    /\ ~Invalid(table)
    /\ \E n \in DOMAIN table : table[n][1].type = "string"

\* C20: an error of f goes to the caller of GET as it is.  Under Double a GET
\* whose table holds text ends with the error NumPy raised in f, f invoked
\* once, and no result table; and the client's call ends with the error of
\* its handler, whatever it is, and no table.
C20_TransformError ==
    [][\A p \in Procs :
         /\ (/\ h[p].pc = "g_load" /\ h'[p].pc = "done"
             /\ transform = "double" /\ HasText(h'[p].table))
            => /\ h'[p].err = "UFuncTypeError"
               /\ h'[p].calls = 1
               /\ h'[p].out = NoColumns
         /\ (pc[p] = "g_wait" /\ pc'[p] = "done" /\ h[p].err # "")
            => /\ res'[p].err = h[p].err
               /\ res'[p].table = NoColumns
               /\ res'[p].val = NoMapping]_vars

\* a get ended with the error of f and no table
C20_Witness ==
    \E p \in Procs :
        /\ pc[p] = "done" /\ op[p] = "get"
        /\ res[p].err = "UFuncTypeError"
        /\ res[p].table = NoColumns
        /\ HasText(storage[cmd[p]])

\* the errors of a GET whose command is stored: decode and Transform failures
PipelineErrors == {"IndexError", "TypeError", "ValueError", "UFuncTypeError"}

\* C21: a GET ends with the NotFound error, for its own command, exactly when
\* the command is not stored at its check; a GET of a stored command never
\* ends with NotFound, and the errors of decode and of the Transform are other
\* errors than NotFound; the client receives the handler's error as it is
C21_NotFoundDistinct ==
    [][\A p \in Procs :
          /\ (h[p].pc = "g_check" /\ h'[p] # h[p]) =>
                /\ (h'[p].err = NotFound) <=> (cmd[p] \notin DOMAIN storage)
                /\ h'[p].err = NotFound =>
                      h'[p].pc = "done" /\ h'[p].command = cmd[p]
                /\ h'[p].err # NotFound =>
                      h'[p].pc = "g_load" /\ h'[p].err = ""
          /\ (h[p].pc = "g_load" /\ h'[p] # h[p]) =>
                /\ h'[p].err \in PipelineErrors \cup {""}
                /\ h'[p].err # NotFound
          /\ (pc[p] = "g_wait" /\ pc'[p] = "done") => res'[p].err = h[p].err
      ]_vars

\* one GET has ended with NotFound and another one, of the command stored in
\* the meantime, has ended with a decode error
C21_Witness ==
    \E p, q \in Procs :
        /\ GetEnded(p) /\ h[p].err = NotFound
        /\ GetEnded(q) /\ h[q].err \in PipelineErrors
        /\ cmd[p] = cmd[q]

C23_GetOnce ==
    [][\A p \in Procs :
          /\ (op'[p] = "get" /\ h'[p].pc = "g_check" /\ h[p].pc # "g_check") =>
                /\ pc[p] = "idle" /\ pc'[p] = "g_wait"
                /\ h'[p].bytes = Ticket(cmd'[p])
          /\ (op[p] = "get" /\ pc[p] = "idle" /\ pc'[p] # "idle") =>
                h'[p].pc = "g_check"
          /\ (op[p] = "get" /\ pc[p] = "g_wait" /\ pc'[p] # "g_wait") =>
                /\ h[p].pc = "done" /\ pc'[p] = "done"
                /\ h[p].err = "" =>
                      /\ res'[p].table = h[p].out
                      /\ res'[p].val = NoMapping /\ res'[p].err = ""
      ]_vars

\* a get has returned a table of one column
C23_Witness ==
    \E p \in Procs :
        /\ op[p] = "get" /\ pc[p] = "done" /\ res[p].err = ""
        /\ DOMAIN res[p].table # {}

\* C25: no step removes a key of the store; a command whose PUT has completed
\* is a key of the store from then on; and a GET that checks for a command
\* whose PUT has completed does not end with NotFound, nor fail in the load
C25_NeverRemoved ==
    [][/\ DOMAIN storage \subseteq DOMAIN storage'
       /\ DOMAIN lastPut \subseteq DOMAIN lastPut'
       /\ DOMAIN lastPut' \subseteq DOMAIN storage'
       /\ \A p \in Procs :
             (cmd[p] \in DOMAIN lastPut /\ h'[p] # h[p]
                 /\ h[p].pc \in {"g_check", "g_load"}) =>
                 h'[p].err \notin {NotFound, "KeyError"}
      ]_vars

\* PUTs of both commands have completed and a later GET has ended with a table
C25_Witness ==
    \E p \in Procs :
        /\ DOMAIN lastPut = Commands
        /\ op[p] = "get" /\ GetEnded(p) /\ h[p].err = ""
        /\ DOMAIN h[p].out # {}

\* C24: a client that has left its with statement connected once on entry
\* and closed that connection once, whether the body completed or raised, and
\* the caller received the error the body raised, or none if it raised none;
\* before the statement is left the connection is not closed
C24_ConnectionScope ==
    \A p \in Procs :
        /\ scope[p].pc = "left" =>
              /\ scope[p].opens = 1 /\ scope[p].closed = 1
              /\ scope[p].conn = "closed"
              /\ scope[p].outcome = scope[p].raised
        /\ scope[p].pc \in {"body", "exit"} =>
              /\ scope[p].opens = 1 /\ scope[p].closed = 0
              /\ scope[p].conn = "open"
        /\ scope[p].pc = "out" => scope[p].opens = 0 /\ scope[p].conn = "none"

\* one client has left its with statement after a body that completed, the
\* other one with the error a rejected write raised in its body
C24_Witness ==
    \E p, q \in Procs :
        /\ scope[p].pc = "left" /\ scope[p].raised = "" /\ scope[p].closed = 1
        /\ scope[q].pc = "left" /\ scope[q].closed = 1
        /\ scope[q].outcome = "ValueError: Empty data"

\* the entries of the codec's input that are arrays
ArrayNames == {n \in DOMAIN cdata : cdata[n] # None}

\* C26: a 0-dimensional array is encoded as the record of the shape [] and
\* the data of its one element, and decoded as a 0-dimensional array of that
\* element; so np.array(42) gives shape [], data [42] and 42 again
C26_Scalar ==
    \A n \in ArrayNames :
        cdata[n].shape = <<>> =>
            /\ cpc \in {"decode", "done"} =>
                  /\ ctable[n][1].shape = <<>>
                  /\ ctable[n][1].data = <<cdata[n].val[<<>>]>>
            /\ cpc = "done" =>
                  /\ cresult.err = ""
                  /\ cresult.val[n].shape = <<>>
                  /\ DOMAIN cresult.val[n].val = {<<>>}
                  /\ cresult.val[n].val[<<>>] = cdata[n].val[<<>>]

\* np.array(42) has been encoded to shape [] and data [42] and decoded to 42
C26_Witness ==
    /\ cpc = "done" /\ cdata = [n \in {"arr"} |-> Scalar]
    /\ ctable["arr"] = <<Struct(<<42>>, <<>>, "int64")>>
    /\ cresult.val["arr"].val[<<>>] = 42

\* the offset of an index in row-major order: the last index varies fastest
RECURSIVE RowMajor(_, _, _)
RowMajor(idx, shape, acc) ==
    IF idx = <<>> THEN acc
    ELSE RowMajor(Tail(idx), Tail(shape), acc * Head(shape) + Head(idx))

\* C27: the data of an encoded array are its elements in row-major order
\* under its own shape, and decode lays the data out by the shape in
\* row-major order; so [[1,2],[3,4]] gives shape [2,2], data [1,2,3,4], and
\* that record decodes to [[1,2],[3,4]]
C27_RowMajor ==
    \A n \in ArrayNames :
        /\ cpc \in {"decode", "done"} =>
              /\ ctable[n][1].shape = cdata[n].shape
              /\ Len(ctable[n][1].data) = Prod(cdata[n].shape)
              /\ \A idx \in Indices(cdata[n].shape) :
                    ctable[n][1].data[RowMajor(idx, cdata[n].shape, 0) + 1]
                        = cdata[n].val[idx]
        /\ cpc = "done" =>
              /\ cresult.val[n].shape = ctable[n][1].shape
              /\ DOMAIN cresult.val[n].val = Indices(ctable[n][1].shape)
              /\ \A idx \in Indices(ctable[n][1].shape) :
                    cresult.val[n].val[idx]
                        = ctable[n][1].data[RowMajor(idx, ctable[n][1].shape, 0) + 1]

\* [[1,2],[3,4]] has been encoded to shape [2,2], data [1,2,3,4], and decoded
C27_Witness ==
    /\ cpc = "done" /\ cdata = [n \in {"arr"} |-> Matrix]
    /\ ctable["arr"] = <<Struct(<<1, 2, 3, 4>>, <<2, 2>>, "int64")>>
    /\ cresult.val["arr"].val = Matrix.val
    /\ cresult.val["arr"].val[<<1, 0>>] = 3

\* C28: the round trip gives every array back with the element type class it
\* had (integer, floating point or text), arrays of zero elements included
C28_TypeClass ==
    cpc = "done" =>
        \A n \in ArrayNames : cresult.val[n].dtype = cdata[n].dtype

\* C29: a handler holds the lock for its access to the store only: whoever
\* holds the lock has received its table already and has nothing left to do
\* but leave the critical section, and no handler holds it while it decodes,
\* transforms or encodes
C29_LockScope ==
    \A p \in Procs :
        lock = p =>
            /\ h[p].pc = "p_release"
            /\ h[p].table = stream[p].table
            /\ stream[p].ended

\* C30: the table encoded from a mapping with an entry that is not None has
\* one row; each column holds one record, whose data are as many as the
\* product of its shape (one element for the shape [], none for a shape with
\* an extent 0); so write's check of the row count does not reject such a
\* mapping, and neither does its check of the mapping
C30_RecordInvariant ==
    (cpc \in {"decode", "done"} /\ ArrayNames # {}) =>
        /\ num_rows(ctable) = 1
        /\ DOMAIN ctable = ArrayNames
        /\ \A n \in DOMAIN ctable :
              /\ Len(ctable[n]) = 1
              /\ ctable[n][1].kind = "struct"
              /\ Prod(ctable[n][1].shape) = Len(ctable[n][1].data)
              /\ ctable[n][1].shape = <<>> => Len(ctable[n][1].data) = 1
        /\ write_error(cdata) = ""

\* the mapping of one array without elements has been encoded: one row, the
\* shape [0] and no data
C30_Witness ==
    /\ cpc \in {"decode", "done"}
    /\ DOMAIN cdata = {"arr"} /\ cdata["arr"] # None
    /\ cdata["arr"].shape = <<0>>
    /\ num_rows(ctable) = 1
    /\ ctable["arr"][1].data = <<>> /\ ctable["arr"][1].shape = <<0>>
    /\ write_error(cdata) = ""

\* C31: for every command string, the empty one included, the key do_put
\* decodes from the descriptor of the string and the key do_get decodes from
\* its ticket are the string itself; so a get of the string that was written
\* finds the entry once it is stored, and a get of any other string does not
C31_KeyConsistency ==
    [][/\ (h[1].pc = "p_lock" /\ h'[1].pc # "p_lock") => h'[1].command = cmd[1]
       /\ (h[2].pc = "g_check" /\ h'[2].pc # "g_check") =>
             /\ h'[2].command = cmd[2]
             /\ (cmd[2] = cmd[1] /\ DOMAIN storage # {}) => h'[2].err # NotFound
             /\ cmd[2] # cmd[1] => h'[2].err = NotFound
       /\ DOMAIN storage' \subseteq {cmd[1]}
       /\ utf8_decode(descriptor(cmd[1])) = extract_command_from_ticket(Ticket(cmd[1]))
      ]_vars

\* a table written under a string with a two-byte character has been found
\* by the get of the same string
C31_Witness ==
    /\ cmd[1] = <<97, 2047>> /\ cmd[2] = cmd[1]
    /\ pc[1] = "done" /\ res[1].err = ""
    /\ GetEnded(2) /\ h[2].err = "" /\ h[2].table = storage[cmd[1]]

\* the tables that are put in the scenario of SpecTables
SuppliedTables == PutTables \cup {np_2_pa(StrInput)}

BlockedInRead(p) == lock = p /\ h[p].pc = "p_read" /\ ~stream[p].ended

HandlersDone == \A p \in DOMAIN h : h[p].pc \in {"done", "none"}

\* C34: with k PUTs for one command in any interleaving, the store changes
\* only when the handler that holds the lock, the one that acquired it last,
\* stores, and then to the whole table of that handler; the handler's table
\* is still stored when it releases; so once all have completed the table
\* stored is the one of the handler that acquired the lock last
C34_SameCommandPuts ==
    [][/\ \A p \in DOMAIN h :
             /\ (h[p].pc = "p_read" /\ h'[p].pc = "p_release") =>
                   /\ lock = p
                   /\ storage' = [k \in {TableCommand} |-> stream[p].table]
             /\ (h[p].pc = "p_release" /\ h'[p].pc = "done") =>
                   /\ lock = p
                   /\ storage' = [k \in {TableCommand} |-> stream[p].table]
                   /\ HandlersDone' => storage'[TableCommand] = lastPut'[TableCommand]
       /\ storage' # storage =>
             \E p \in DOMAIN h : h[p].pc = "p_read" /\ h'[p].pc = "p_release"
       /\ \A k \in DOMAIN storage' :
             \E p \in DOMAIN h : storage'[k] = np_2_pa(data[p])
      ]_vars

\* all PUTs for the one command have completed, not all with the same table,
\* and the store holds the matrix one of them supplied
C34_Witness ==
    /\ PutsAllDone
    /\ \E p, q \in DOMAIN pc : data[p] # data[q]
    /\ \A p \in DOMAIN pc : cmd[p] = TableCommand /\ res[p].err = ""
    /\ storage[TableCommand] = np_2_pa([n \in {"arr"} |-> Matrix])

\* C35: a GET that passed the membership test finds an entry when it reads
\* the mapping, with no lock taken for either step; the table it reads, and
\* operates on, is the one stored at the read, also when a PUT has replaced
\* the one stored at the test in between, and it is always the whole table
\* that a PUT for the command supplied
C35_CheckThenRead ==
    [][\A p \in Procs :
          /\ (h[p].pc = "g_check" /\ h'[p].pc = "g_load") =>
                /\ lock' = lock
                /\ h'[p].command \in DOMAIN storage
          /\ (h[p].pc = "g_load" /\ h'[p] # h[p]) =>
                /\ lock' = lock
                /\ h[p].command \in DOMAIN storage
                /\ h'[p].err # "KeyError"
                /\ h'[p].table = storage[h[p].command]
                /\ \E d \in LockInputs : h'[p].table = np_2_pa(d)
                /\ h'[p].err = "" =>
                      Expected(transform, pa_2_np(storage[h[p].command]).val,
                               pa_2_np(h'[p].out).val)
      ]_vars

\* a GET has ended that operated on another table than the one stored when
\* it made its membership test
C35_Witness ==
    \E p \in Procs :
        /\ GetEnded(p) /\ h[p].err = ""
        /\ h[p].seen # NoColumns /\ h[p].table # h[p].seen
        /\ h[p].table = storage[h[p].command]

\* C36: when reader.read_all raises in do_put, the store is left as it was,
\* with no entry created or replaced, the handler ends with the error and
\* without an acknowledgement, the client's write raises, and the lock is
\* released: whenever the lock is held, its holder is a handler inside the
\* critical section, so a later PUT can acquire it
C36_FailedPut ==
    [][\A p \in Procs :
          /\ (h[p].pc = "p_read" /\ stream[p].state = "broken" /\ h'[p] # h[p]) =>
                /\ storage' = storage
                /\ lock = p /\ lock' = NoHolder
                /\ h'[p].pc = "done" /\ h'[p].err # "" /\ h'[p].ack = <<>>
                /\ lastPut' = lastPut
          /\ (pc[p] = "w_wait" /\ pc'[p] # "w_wait" /\ stream[p].state = "broken") =>
                pc'[p] = "done" /\ res'[p].err # ""
          /\ lock' = p => h'[p].pc \in {"p_read", "p_release"}
      ]_vars

\* the write of one client has failed in the transmission, and after it
\* the PUT of the other client for the same command has acquired the lock
\* and stored its table
C36_Witness ==
    \E p, q \in Procs :
        /\ pc[p] = "done" /\ op[p] = "write" /\ res[p].err = "FlightError"
        /\ stream[p].state = "broken"
        /\ lock = q /\ h[q].pc = "p_release" /\ cmd[q] = cmd[p]
        /\ storage[cmd[q]] = stream[q].table

\* every handler has ended, those of the PUTs without an error and with the
\* command in the store
AllHandled ==
    /\ HandlersDone
    /\ \A p \in DOMAIN h :
          op[p] = "write" =>
              /\ h[p].err = "" /\ res[p].err = ""
              /\ cmd[p] \in DOMAIN storage

\* C37: under fair scheduling, with tables that have arrived, every PUT
\* handler that has started acquires the lock, stores its table and returns
\* its acknowledgement, so that in the end every handler has ended; the
\* lock is free exactly when no PUT handler is between acquiring and
\* releasing it; and while a handler of a PUT or a GET is unfinished some
\* handler can take a step
C37_PutProgress ==
    /\ <>[]AllHandled
    /\ [](\A p \in DOMAIN h :
            (op[p] = "write" /\ h[p].pc = "done") =>
                /\ h[p].err = "" /\ h[p].ack = descriptor(cmd[p])
                /\ h[p].table = stream[p].table
                /\ cmd[p] \in DOMAIN storage)
    /\ [](lock = NoHolder <=>
            ~\E p \in DOMAIN h : h[p].pc \in {"p_read", "p_release"})
    /\ [](HandlersDone \/ ENABLED HandlerStep)

\* a PUT has returned its acknowledgement while another PUT holds the lock
\* and a GET is on its way
C37_Witness ==
    \E p, q, r \in Putters :
        /\ op[p] = "write" /\ h[p].pc = "done" /\ h[p].ack = descriptor(cmd[p])
        /\ op[q] = "write" /\ lock = q /\ h[q].pc = "p_release"
        /\ op[r] = "get" /\ h[r].pc = "g_load"

\* C38: compute issues its GET only when its write has completed without an
\* error, the stream closed and the PUT acknowledged; when the write raises,
\* before or after the stream is opened, compute ends with that error and no
\* GET handler is started; and neither step is made twice: a PUT handler
\* starts only at the call, a GET handler only at the return of the write,
\* and a call that has ended is not taken up again
C38_ComputeOrder ==
    [][\A p \in Procs :
          op'[p] = "compute" =>
              /\ (h'[p].pc = "g_check" /\ h[p].pc # "g_check") =>
                    /\ pc[p] = "w_wait" /\ pc'[p] = "g_wait"
                    /\ h[p].pc = "done" /\ h[p].err = "" /\ res[p].err = ""
                    /\ h[p].ack = descriptor(cmd[p])
                    /\ stream[p].state = "sent" /\ stream[p].ended
                    /\ closes[p] = 1
                    /\ h'[p].bytes = Ticket(cmd[p])
              /\ (pc[p] \in {"idle", "w_wait"} /\ pc'[p] = "done") =>
                    /\ res'[p].err # ""
                    /\ res'[p].err \in {"ValueError: Empty data",
                                        "TypeError: Empty table", "FlightError"}
                    /\ h'[p].pc = "none"
              /\ (pc[p] = "w_wait" /\ pc'[p] # "w_wait"
                    /\ (res[p].err # "" \/ h[p].err # "")) => pc'[p] = "done"
              /\ (h'[p].pc = "p_lock" /\ h[p].pc # "p_lock") => pc[p] = "idle"
              /\ (pc[p] = "g_wait" /\ pc'[p] # "g_wait") => pc'[p] = "done"
              /\ (pc[p] = "done" /\ pc'[p] # "done") => FALSE
      ]_vars

\* one compute has returned its result and another one has ended with the
\* error of its transmission, with no GET handler started
C38_Witness ==
    \E p, q \in Procs :
        /\ op[p] = "compute" /\ pc[p] = "done" /\ res[p].err = ""
        /\ DOMAIN res[p].val # {}
        /\ op[q] = "compute" /\ pc[q] = "done" /\ res[q].err = "FlightError"
        /\ h[q].pc = "none" /\ closes[q] = 1

\* C39: a PUT for command c changes the entry of c alone: in every step in
\* which a handler stores its table, every other command d is stored after
\* the step exactly when it was before it, and with the same table
C39_PutFrame ==
    [][\A p \in DOMAIN h :
          (h[p].pc = "p_read" /\ h'[p].pc = "p_release") =>
              /\ h[p].command \in DOMAIN storage'
              /\ \A d \in (DOMAIN storage \cup DOMAIN storage') \ {h[p].command} :
                    /\ d \in DOMAIN storage
                    /\ d \in DOMAIN storage'
                    /\ storage'[d] = storage[d]
      ]_vars

\* a PUT has just stored its table under one command while another command
\* holds a different table
C39_Witness ==
    \E p \in DOMAIN h :
        /\ h[p].pc = "p_release"
        /\ h[p].command \in DOMAIN storage
        /\ \E d \in DOMAIN storage :
              /\ d # h[p].command
              /\ storage[d] # storage[h[p].command]

====
